---- MODULE Spec2Model ----
(***************************************************************************)
(* Model of PrusaSlic3rCodeFile (src/slicer_prusa_slic3r.py): the layer    *)
(* segmenter parse_layers, the header validation of parse_header, the slot *)
(* allocator filter_layers and the control flow of process.                *)
(*                                                                         *)
(* Lengths (Z, layer height) are integers in units of 0.1 mm.  A line is   *)
(* the (cmd, comment) pair that gcode.read_gcode_line returns; "" stands   *)
(* for None.  A Layer object is a record; self.layers is a sequence of     *)
(* them and references to Layer objects (prev_layer, the members of a Z    *)
(* bucket, filtered_layers) are indices into that sequence.                *)
(***************************************************************************)
EXTENDS Integers, Sequences, FiniteSets, TLC

VARIABLES
    pc,               \* position of the caller in process / the method sequence
    input,            \* the lines parse_layers has consumed so far
    layers,           \* self.layers
    prev_layer,       \* parse_layers local: index of prev_layer, 0 for None
    prev_height,      \* parse_layers local
    current_layer,    \* parse_layers local: the Layer being filled
    layer_start,      \* parse_layers local: marker seen, Z-move awaited
    layer_num,        \* parse_layers local: index of the last marker
    layer_z,          \* parse_layers local: Z of the last marker
    layer_height,     \* self.layer_height
    hpos,             \* parse_header: position of the scan over the lines
    tools,            \* len(self.tools)
    layer_data,       \* filter_layers local: Z -> [layers, slots]
    zs,               \* filter_layers local: the Z list being scanned
    zi,               \* filter_layers local: position of "for z in zs"
    slots,            \* filter_layers local
    count,            \* filter_layers local
    max_slots,        \* self.max_slots
    filtered_layers   \* self.filtered_layers

vars == <<pc, input, layers, prev_layer, prev_height, current_layer, layer_start,
          layer_num, layer_z, layer_height, hpos, tools, layer_data, zs, zi,
          slots, count, max_slots, filtered_layers>>

parseVars == <<prev_layer, prev_height, current_layer, layer_start, layer_num, layer_z>>
filterVars == <<layer_data, zs, zi, slots, count, max_slots, filtered_layers>>

-----------------------------------------------------------------------------
(* Bounds of the model *)

MaxLines == 5
MaxZ == 3
MaxBuckets == 5

(* Program constants *)

FirstLayerZ == 2
FirstLayerHeight == 2
SupportedLayerHeight == 2
InitialSlots == 1
PromoteCount == 3
NoLayerHeight == 0
StartGcodeEnd == 0

ACT_SWITCH == "switch"
ACT_INFILL == "infill"
ACT_PASS == "pass"
ACT_UNSET == "unset"

-----------------------------------------------------------------------------
(* Lines *)

MarkerLine(i, z) == [cmd |-> "", comment |-> "BEFORE_LAYER_CHANGE", n |-> i, v |-> z]
ZMoveLine == [cmd |-> "G1 Z", comment |-> "", n |-> 0, v |-> 0]
ToolChangeLine == [cmd |-> "T1", comment |-> "", n |-> 0, v |-> 0]
LayerHeightLine(h) == [cmd |-> "", comment |-> "layer_height =", n |-> 0, v |-> h]
RelativeELine(b) == [cmd |-> "", comment |-> "use_relative_e_distances =", n |-> 0, v |-> b]
ToolChangeComment == [cmd |-> "", comment |-> "TOOL CHANGE", n |-> 0, v |-> 0]

IsMarker(line) == line.comment = "BEFORE_LAYER_CHANGE"
is_z_move(cmd) == cmd = "G1 Z"
is_tool_change(cmd) == cmd = "T1"

MarkerCount(ls) == Len(SelectSeq(ls, IsMarker))

\* the lines a file of layer bodies may continue with: the next marker
\* (markers carry the indices 0, 1, 2, ... in order), a Z-move, a tool change
BodyLines(ls) == {MarkerLine(MarkerCount(ls), z) : z \in 1..MaxZ} \cup {ZMoveLine, ToolChangeLine}

\* the lines of a header-only file
HeaderLines == {LayerHeightLine(SupportedLayerHeight), LayerHeightLine(SupportedLayerHeight + 1),
                RelativeELine(1), RelativeELine(0), ToolChangeLine}

-----------------------------------------------------------------------------
(* Layer objects *)

Layer(num, z, height) ==
    [num |-> num + 1, z |-> z, height |-> height, first |-> FALSE, lines |-> <<>>,
     action |-> ACT_UNSET, tower_slots |-> 0]

FirstLayer(num, z, height) == [Layer(num, z, height) EXCEPT !.first = TRUE]

has_tool_changes(l) == \E k \in 1..Len(l.lines) : is_tool_change(l.lines[k].cmd)

BoolInt(b) == IF b THEN 1 ELSE 0

-----------------------------------------------------------------------------
(* parse_layers *)

check_layer_change(line) == IF IsMarker(line) THEN <<line.n, line.v>> ELSE <<>>

IsBoundaryAnyZMove(cmd, pending) == cmd # "" /\ is_z_move(cmd)
IsBoundary(cmd, pending) == cmd # "" /\ pending /\ is_z_move(cmd)

FirstMarkerCaseZero(cur_num, marker_num) == cur_num = 0 /\ marker_num = 0
FirstMarkerCase(cur_num, marker_num) == cur_num = 1 /\ marker_num = 0

ParserInit ==
    [layers |-> <<>>, prev_layer |-> 0, prev_height |-> 0,
     current_layer |-> FirstLayer(0, FirstLayerZ, FirstLayerHeight),
     layer_start |-> FALSE, layer_num |-> 0, layer_z |-> 0]

\* one iteration of "for line in lines"
ParseLine(st, line) ==
    LET ret == check_layer_change(line)
        s1 == IF line.comment # "" /\ ret # <<>>
              THEN [st EXCEPT !.layer_num = ret[1], !.layer_z = ret[2], !.layer_start = TRUE]
              ELSE st
        prev_z == IF s1.prev_layer # 0 THEN s1.layers[s1.prev_layer].z ELSE 0
        raw == s1.current_layer.z - prev_z
        height == IF raw # 0 THEN raw ELSE s1.prev_height
        s2 == IF ~IsBoundary(line.cmd, s1.layer_start) THEN s1
              ELSE IF FirstMarkerCase(s1.current_layer.num, s1.layer_num)
                   THEN [s1 EXCEPT !.layer_start = FALSE, !.current_layer.z = s1.layer_z]
                   ELSE [s1 EXCEPT !.layer_start = FALSE,
                                   !.prev_height = IF raw # 0 THEN raw ELSE @,
                                   !.layers = Append(@, s1.current_layer),
                                   !.prev_layer = Len(s1.layers) + 1,
                                   !.current_layer = Layer(s1.layer_num, s1.layer_z, height)]
    IN [s2 EXCEPT !.current_layer.lines = Append(@, line)]

\* "# last layer": self.layers.append(current_layer)
ParseEnd(st) == [st EXCEPT !.layers = Append(@, st.current_layer)]

RECURSIVE ParseLines(_, _)
ParseLines(st, ls) ==
    IF ls = <<>> THEN st
    ELSE LET s == ParseLine(st, Head(ls))
         IN CASE s.layer_start \in BOOLEAN -> ParseLines(s, Tail(ls))  \* s is evaluated here

ParserState ==
    [layers |-> layers, prev_layer |-> prev_layer, prev_height |-> prev_height,
     current_layer |-> current_layer, layer_start |-> layer_start,
     layer_num |-> layer_num, layer_z |-> layer_z]

SetParser(st) ==
    /\ layers' = st.layers
    /\ prev_layer' = st.prev_layer
    /\ prev_height' = st.prev_height
    /\ current_layer' = st.current_layer
    /\ layer_start' = st.layer_start
    /\ layer_num' = st.layer_num
    /\ layer_z' = st.layer_z

ReadLine(line) ==
    /\ pc = "parse"
    /\ Len(input) < MaxLines
    /\ input' = Append(input, line)
    /\ SetParser(ParseLine(ParserState, line))
    /\ UNCHANGED <<pc, layer_height, hpos, tools>>
    /\ UNCHANGED filterVars

EndOfFile(next) ==
    /\ pc = "parse"
    /\ pc' = next
    /\ SetParser(ParseEnd(ParserState))
    /\ UNCHANGED <<input, layer_height, hpos, tools>>
    /\ UNCHANGED filterVars

-----------------------------------------------------------------------------
(* parse_header: the scan over every line of every layer, then the checks *)

RECURSIVE Flatten(_)
Flatten(ls) == IF ls = <<>> THEN <<>> ELSE Head(ls).lines \o Flatten(Tail(ls))

HeaderLine ==
    /\ pc = "header"
    /\ hpos <= Len(Flatten(layers))
    /\ LET line == Flatten(layers)[hpos] IN
         /\ pc' = IF line.cmd = "" /\ line.comment = "use_relative_e_distances =" /\ line.v # 1
                  THEN "fatal" ELSE "header"
         /\ layer_height' = IF line.cmd = "" /\ line.comment = "layer_height ="
                            THEN line.v ELSE layer_height
    /\ hpos' = hpos + 1
    /\ UNCHANGED <<input, layers, tools>>
    /\ UNCHANGED parseVars
    /\ UNCHANGED filterVars

HeaderFinish ==
    /\ pc = "header"
    /\ hpos > Len(Flatten(layers))
    /\ pc' = IF layer_height # SupportedLayerHeight THEN "fatal" ELSE "settings"
    /\ UNCHANGED <<input, layers, layer_height, hpos, tools>>
    /\ UNCHANGED parseVars
    /\ UNCHANGED filterVars

-----------------------------------------------------------------------------
(* parse_print_settings *)

ToolCount(ls) == 1 + BoolInt(\E i \in 1..Len(ls) : has_tool_changes(ls[i]))

\* 1-based position in the first layer of the first tool change after the
\* start g-code region, 0 if none
FirstToolChange(l) ==
    LET hits == {k \in 1..Len(l.lines) : k - 1 > StartGcodeEnd /\ is_tool_change(l.lines[k].cmd)}
    IN IF hits = {} THEN 0 ELSE CHOOSE k \in hits : \A j \in hits : k <= j

InsertAt(s, k, e) == SubSeq(s, 1, k - 1) \o <<e>> \o SubSeq(s, k, Len(s))

ParsePrintSettings ==
    /\ pc = "settings"
    /\ pc' = "filter"
    /\ tools' = ToolCount(layers)
    /\ LET k == FirstToolChange(layers[1]) IN
         layers' = IF k = 0 THEN layers
                   ELSE [layers EXCEPT ![1].lines = InsertAt(@, k, ToolChangeComment)]
    /\ UNCHANGED <<input, layer_height, hpos>>
    /\ UNCHANGED parseVars
    /\ UNCHANGED filterVars

-----------------------------------------------------------------------------
(* filter_layers *)

Indices(ls) == [i \in 1..Len(ls) |-> i]

RECURSIVE SortedSeq(_)
SortedSeq(S) ==
    IF S = {} THEN <<>>
    ELSE LET m == CHOOSE x \in S : \A y \in S : x <= y IN <<m>> \o SortedSeq(S \ {m})

Reverse(s) == [k \in 1..Len(s) |-> s[Len(s) + 1 - k]]

\* lrs: the number of member layers of bucket z that have tool changes
Required(z) ==
    LET m == layer_data[z].layers
    IN Cardinality({k \in 1..Len(m) : has_tool_changes(layers[m[k]])})

\* the body of "for z in zs" in the slot scan, from lrs and the running
\* slots and count: the new slots and count and the slot count recorded
ScanStepEager(lrs, s, c) ==
    LET c1 == IF lrs > s THEN c + 1 ELSE c
        s2 == IF c1 >= PromoteCount - 1 THEN lrs ELSE s
    IN [slots |-> s2, count |-> IF c1 >= PromoteCount - 1 THEN 0 ELSE c1, recorded |-> s2]

ScanStepRecordFirst(lrs, s, c) ==
    LET c1 == IF lrs > s THEN c + 1 ELSE c
        s2 == IF c1 >= PromoteCount THEN lrs ELSE s
    IN [slots |-> s2, count |-> IF c1 >= PromoteCount THEN 0 ELSE c1, recorded |-> s]

ScanStepConsecutive(lrs, s, c) ==
    LET c1 == IF lrs > s THEN c + 1 ELSE 0
        s2 == IF c1 >= PromoteCount THEN lrs ELSE s
    IN [slots |-> s2, count |-> IF c1 >= PromoteCount THEN 0 ELSE c1, recorded |-> s2]

ScanStepNoReset(lrs, s, c) ==
    LET c1 == IF lrs > s THEN c + 1 ELSE c
        s2 == IF c1 >= PromoteCount THEN lrs ELSE s
    IN [slots |-> s2, count |-> c1, recorded |-> s2]

ScanStep(lrs, s, c) ==
    LET c1 == IF lrs > s THEN c + 1 ELSE c
        s2 == IF c1 >= PromoteCount THEN lrs ELSE s
    IN [slots |-> s2, count |-> IF c1 >= PromoteCount THEN 0 ELSE c1, recorded |-> s2]

HasFreeSlotInclusive(filled, s) == filled <= s
HasFreeSlot(filled, s) == filled < s

\* "then check other layers": the second loop over the members of a bucket
RECURSIVE TagRest(_, _, _, _)
TagRest(ls, members, filled, s) ==
    IF members = <<>> THEN ls
    ELSE LET i == Head(members) IN
         IF has_tool_changes(ls[i]) THEN TagRest(ls, Tail(members), filled, s)
         ELSE IF HasFreeSlot(filled, s)
              THEN TagRest([ls EXCEPT ![i].action = ACT_INFILL], Tail(members), filled + 1, s)
              ELSE TagRest([ls EXCEPT ![i].action = ACT_PASS], Tail(members), filled, s)

\* both loops over the members of one bucket
TagBucket(ls, members, s) ==
    LET in == {members[k] : k \in 1..Len(members)}
        ls1 == [i \in 1..Len(ls) |->
                  IF i \in in
                  THEN [ls[i] EXCEPT !.tower_slots = s,
                                     !.action = IF has_tool_changes(ls[i]) THEN ACT_SWITCH ELSE @]
                  ELSE ls[i]]
        filled == Cardinality({i \in in : has_tool_changes(ls[i])})
    IN TagRest(ls1, members, filled, s)

RECURSIVE TagBuckets(_, _)
TagBuckets(ls, zseq) ==
    IF zseq = <<>> THEN ls
    ELSE LET z == Head(zseq) IN
         IF layer_data[z].slots = 0 THEN TagBuckets(ls, Tail(zseq))
         ELSE TagBuckets(TagBucket(ls, layer_data[z].layers, layer_data[z].slots), Tail(zseq))

\* "step 3: pack groups to list"
RECURSIVE PackGroups(_)
PackGroups(zseq) ==
    IF zseq = <<>> THEN <<>> ELSE layer_data[Head(zseq)].layers \o PackGroups(Tail(zseq))

\* sorted(layers, key=lambda x: x.num): a stable sort
RECURSIVE InsertByNum(_, _)
InsertByNum(sorted, i) ==
    IF sorted = <<>> THEN <<i>>
    ELSE IF layers[Head(sorted)].num <= layers[i].num
         THEN <<Head(sorted)>> \o InsertByNum(Tail(sorted), i)
         ELSE <<i>> \o sorted

RECURSIVE SortByNumFrom(_, _)
SortByNumFrom(sorted, rest) ==
    IF rest = <<>> THEN sorted ELSE SortByNumFrom(InsertByNum(sorted, Head(rest)), Tail(rest))

SortByNumUnsorted(s) == s
SortByNum(s) == SortByNumFrom(<<>>, s)

\* step 1 and the sorted, reversed Z list
FilterGroup ==
    /\ pc = "filter"
    /\ pc' = "scan"
    /\ layer_data' = [z \in {layers[i].z : i \in 1..Len(layers)} |->
                        [layers |-> SelectSeq(Indices(layers), LAMBDA i : layers[i].z = z),
                         slots |-> -1]]
    /\ zs' = Reverse(SortedSeq(DOMAIN layer_data'))
    /\ slots' = InitialSlots
    /\ count' = 0
    /\ zi' = 1
    /\ UNCHANGED <<input, layers, layer_height, hpos, tools, max_slots, filtered_layers>>
    /\ UNCHANGED parseVars

\* one iteration of the slot scan
ScanBucket ==
    /\ pc = "scan"
    /\ zi <= Len(zs)
    /\ LET r == ScanStep(Required(zs[zi]), slots, count) IN
         /\ slots' = r.slots
         /\ count' = r.count
         /\ layer_data' = [layer_data EXCEPT ![zs[zi]].slots = r.recorded]
    /\ zi' = zi + 1
    /\ UNCHANGED <<pc, input, layers, layer_height, hpos, tools, zs, max_slots, filtered_layers>>
    /\ UNCHANGED parseVars

\* self.max_slots = slots, zs.reverse()
ScanDone ==
    /\ pc = "scan"
    /\ zi > Len(zs)
    /\ pc' = "tag"
    /\ max_slots' = slots
    /\ zs' = Reverse(zs)
    /\ UNCHANGED <<input, layers, layer_height, hpos, tools, layer_data, zi, slots, count,
                   filtered_layers>>
    /\ UNCHANGED parseVars

TagLayers ==
    /\ pc = "tag"
    /\ pc' = "pack"
    /\ layers' = TagBuckets(layers, zs)
    /\ UNCHANGED <<input, layer_height, hpos, tools>>
    /\ UNCHANGED parseVars
    /\ UNCHANGED filterVars

PackLayers ==
    /\ pc = "pack"
    /\ pc' = "filtered"
    /\ filtered_layers' = SortByNum(PackGroups(zs))
    /\ UNCHANGED <<input, layers, layer_height, hpos, tools, layer_data, zs, zi, slots, count,
                   max_slots>>
    /\ UNCHANGED parseVars

-----------------------------------------------------------------------------
(* the rest of process *)

ParsePerimeterRates ==
    /\ pc = "filtered"
    /\ pc' = "rated"
    /\ UNCHANGED <<input, layers, layer_height, hpos, tools>>
    /\ UNCHANGED parseVars
    /\ UNCHANGED filterVars

AddToolChanges ==
    /\ pc = "rated"
    /\ tools > 1
    /\ pc' = "towered"
    /\ UNCHANGED <<input, layers, layer_height, hpos, tools>>
    /\ UNCHANGED parseVars
    /\ UNCHANGED filterVars

SkipToolChanges ==
    /\ pc = "rated"
    /\ ~(tools > 1)
    /\ pc' = "plain"
    /\ UNCHANGED <<input, layers, layer_height, hpos, tools>>
    /\ UNCHANGED parseVars
    /\ UNCHANGED filterVars

SaveNewFile ==
    /\ pc \in {"towered", "plain"}
    /\ pc' = "saved"
    /\ UNCHANGED <<input, layers, layer_height, hpos, tools>>
    /\ UNCHANGED parseVars
    /\ UNCHANGED filterVars

-----------------------------------------------------------------------------
(* Specifications *)

InitFilterVars ==
    /\ layer_data = <<>>
    /\ zs = <<>>
    /\ zi = 0
    /\ slots = 0
    /\ count = 0
    /\ max_slots = 0
    /\ filtered_layers = <<>>

InitAfter(st, ls, at) ==
    /\ pc = at
    /\ input = ls
    /\ layers = st.layers
    /\ prev_layer = st.prev_layer
    /\ prev_height = st.prev_height
    /\ current_layer = st.current_layer
    /\ layer_start = st.layer_start
    /\ layer_num = st.layer_num
    /\ layer_z = st.layer_z
    /\ layer_height = NoLayerHeight
    /\ hpos = 1
    /\ tools = 1
    /\ InitFilterVars

\* parse_layers on a file of layer bodies, then filter_layers
Init == InitAfter(ParserInit, <<>>, "parse")

Next ==
    \/ \E line \in BodyLines(input) : ReadLine(line)
    \/ EndOfFile("filter")
    \/ FilterGroup
    \/ ScanBucket
    \/ ScanDone
    \/ TagLayers
    \/ PackLayers

Spec == Init /\ [][Next]_vars

\* process on a file of header comments and tool changes
NextProcess ==
    \/ \E line \in HeaderLines : ReadLine(line)
    \/ EndOfFile("header")
    \/ HeaderLine
    \/ HeaderFinish
    \/ ParsePrintSettings
    \/ FilterGroup
    \/ ScanBucket
    \/ ScanDone
    \/ TagLayers
    \/ PackLayers
    \/ ParsePerimeterRates
    \/ AddToolChanges
    \/ SkipToolChanges
    \/ SaveNewFile

SpecProcess == Init /\ [][NextProcess]_vars

\* filter_layers on the layers parse_layers builds from a file laid out from
\* Z buckets: bucket b has Z = b and one layer per entry of its pattern, TRUE
\* for a layer with a tool change
Patterns == {<<FALSE>>, <<FALSE, TRUE, FALSE>>, <<TRUE, TRUE>>, <<TRUE, TRUE, TRUE>>}

PatternLen == CHOOSE n \in 1..8 : (\E p \in Patterns : Len(p) = n) /\ (\A p \in Patterns : Len(p) <= n)

BucketSeqs == UNION {[1..n -> Patterns] : n \in 1..MaxBuckets}

\* the (bucket, member) pairs in print order: bucket after bucket ("up"), or
\* the first members of all buckets, then the second ones ("weave")
PrintOrder(b, order) ==
    LET n == Len(b)
        grid == [k \in 1..(n * PatternLen) |->
                   IF order = "up"
                   THEN <<((k - 1) \div PatternLen) + 1, ((k - 1) % PatternLen) + 1>>
                   ELSE <<((k - 1) % n) + 1, ((k - 1) \div n) + 1>>]
    IN SelectSeq(grid, LAMBDA e : e[2] <= Len(b[e[1]]))

RECURSIVE BucketFile(_, _, _)
BucketFile(b, order, k) ==
    IF k > Len(order) THEN <<>>
    ELSE LET e == order[k] IN
         <<MarkerLine(k - 1, e[1]), ZMoveLine>>
         \o (IF b[e[1]][e[2]] THEN <<ToolChangeLine>> ELSE <<>>)
         \o BucketFile(b, order, k + 1)

InitFilter ==
    \E b \in BucketSeqs, o \in {"up", "weave"} :
       LET file == BucketFile(b, PrintOrder(b, o), 1)
       IN InitAfter(ParseEnd(ParseLines(ParserInit, file)), file, "filter")

NextFilter ==
    \/ FilterGroup
    \/ ScanBucket
    \/ ScanDone
    \/ TagLayers
    \/ PackLayers

SpecFilter == InitFilter /\ [][NextFilter]_vars

-----------------------------------------------------------------------------
(* Vocabulary of the properties, taken from the input and the layer list *)

\* the Z buckets from the highest Z to the lowest
ZHighToLow == Reverse(SortedSeq({layers[i].z : i \in 1..Len(layers)}))

\* the layers of the bucket at z, in the order of the layer list
BucketAt(z) == {i \in 1..Len(layers) : layers[i].z = z}

ReqOf(z) == Cardinality({i \in BucketAt(z) : has_tool_changes(layers[i])})

ReqSeq == [k \in 1..Len(ZHighToLow) |-> ReqOf(ZHighToLow[k])]

RecSeq == [k \in 1..Len(ZHighToLow) |-> layer_data[ZHighToLow[k]].slots]

\* the positions of the layer markers of a file
Markers(ls) == {k \in 1..Len(ls) : IsMarker(ls[k])}

\* every marker is followed by a Z-move before the next marker or the end
Confirmed(ls) ==
    \A m \in Markers(ls) :
        \E p \in (m + 1)..Len(ls) :
            /\ is_z_move(ls[p].cmd)
            /\ \A k \in (m + 1)..p : ~IsMarker(ls[k])

ScanFinished == pc \in {"tag", "pack", "filtered"}

ScanStepTaken == pc = "scan" /\ zi <= Len(zs) /\ zi' = zi + 1

-----------------------------------------------------------------------------
(* C1 *)

RECURSIVE RefFold(_, _, _)
RefFold(reqs, s, streak) ==
    IF reqs = <<>> THEN <<>>
    ELSE LET r == Head(reqs)
             k == IF r > s THEN streak + 1 ELSE streak
             s1 == IF k = 3 THEN r ELSE s
         IN <<s1>> \o RefFold(Tail(reqs), s1, IF k = 3 THEN 0 ELSE k)

\* C1: once the slot scan of filter_layers has finished, the slot counts
\* recorded on the Z buckets, read from the highest Z to the lowest, are those
\* of the reference fold over the buckets' required counts (slots from 1,
\* streak from 0, streak incremented when required > slots, slots := required
\* and streak := 0 when the streak reaches 3, the bucket records slots); for
\* required counts [1,2,2,2,1] they are [1,1,1,2,2].
C1_SlotFold ==
    ScanFinished =>
        /\ RecSeq = RefFold(ReqSeq, 1, 0)
        /\ ReqSeq = <<1, 2, 2, 2, 1>> => RecSeq = <<1, 1, 1, 2, 2>>

C1_Witness == pc = "filtered" /\ ReqSeq = <<1, 2, 2, 2, 1>> /\ RecSeq = <<1, 1, 1, 2, 2>>

-----------------------------------------------------------------------------
(* C2 *)

Hosts(z) == Cardinality({i \in BucketAt(z) : has_tool_changes(layers[i])})

\* the position of layer i among the layers of its bucket without tool changes
FillerRank(i) ==
    Cardinality({j \in BucketAt(layers[i].z) : j <= i /\ ~has_tool_changes(layers[j])})

\* C2: after the tagging loop of filter_layers, in every Z bucket with a
\* nonzero slot count each member with tool changes is ACT_SWITCH, the members
\* without tool changes are ACT_INFILL in bucket order while hosts plus infill
\* layers stay within the slot count and ACT_PASS after that, and every member
\* has tower_slots equal to the bucket's slot count.
C2_Tagging ==
    pc \in {"pack", "filtered"} =>
        \A z \in DOMAIN layer_data :
            layer_data[z].slots # 0 =>
                \A i \in BucketAt(z) :
                    /\ layers[i].tower_slots = layer_data[z].slots
                    /\ has_tool_changes(layers[i]) => layers[i].action = ACT_SWITCH
                    /\ ~has_tool_changes(layers[i]) =>
                          layers[i].action =
                              IF Hosts(z) + FillerRank(i) <= layer_data[z].slots
                              THEN ACT_INFILL ELSE ACT_PASS

C2_Witness ==
    /\ pc = "filtered"
    /\ \E z \in DOMAIN layer_data :
          /\ layer_data[z].slots = 2
          /\ \E i, j, k \in BucketAt(z) :
                /\ layers[i].action = ACT_SWITCH
                /\ layers[j].action = ACT_INFILL
                /\ layers[k].action = ACT_PASS
                /\ j < i /\ i < k

-----------------------------------------------------------------------------
(* C3 *)

-----------------------------------------------------------------------------
(* C4 *)

\* the thickness C4 gives layer i: its own Z minus the Z of the layer before
\* it, or the last non-zero such difference when that is zero
RECURSIVE OwnThickness(_)
OwnThickness(i) ==
    IF layers[i].z - layers[i - 1].z # 0 THEN layers[i].z - layers[i - 1].z
    ELSE IF i > 2 THEN OwnThickness(i - 1) ELSE 0

\* C4: every layer parse_layers creates has height equal to its own Z minus
\* the Z of the layer before it, or, when that is zero, to the last non-zero
\* thickness computed earlier.  Stated for the files in which every marker is
\* followed by its Z-move and Z never decreases, and for the layers where
\* such a thickness exists.
C4_Thickness ==
    (/\ pc = "filter"
     /\ Confirmed(input)
     /\ \A i \in 2..Len(layers) : layers[i - 1].z <= layers[i].z) =>
        \A i \in 2..Len(layers) :
            OwnThickness(i) # 0 => layers[i].height = OwnThickness(i)

-----------------------------------------------------------------------------
(* C5 *)

LayerHeightValues(ls) == SelectSeq(ls, LAMBDA l : l.comment = "layer_height =")

\* the file states the supported layer height (the last annotation counts)
HeightSupported(ls) ==
    /\ LayerHeightValues(ls) # <<>>
    /\ LayerHeightValues(ls)[Len(LayerHeightValues(ls))].v = SupportedLayerHeight

\* the file carries use_relative_e_distances = 1 and no other value
RelativeEEnabled(ls) ==
    /\ \E k \in 1..Len(ls) : ls[k] = RelativeELine(1)
    /\ \A k \in 1..Len(ls) : ls[k].comment = "use_relative_e_distances =" => ls[k].v = 1

PastHeader ==
    pc \in {"settings", "filter", "scan", "tag", "pack", "filtered", "rated", "towered",
            "plain", "saved"}

-----------------------------------------------------------------------------
(* C6 *)

LastMarkerAt(ls) == CHOOSE m \in Markers(ls) : \A k \in Markers(ls) : k <= m

\* a marker has been read and no Z-move after it
Pending(ls) ==
    /\ Markers(ls) # {}
    /\ \A k \in (LastMarkerAt(ls) + 1)..Len(ls) : ~is_z_move(ls[k].cmd)

C6_Step ==
    (pc = "parse" /\ Len(input') = Len(input) + 1) =>
        LET line == input'[Len(input')]
            opened == Len(layers') = Len(layers) + 1
            marker == input[LastMarkerAt(input)]
        IN /\ layer_start = Pending(input)
           /\ layers' = layers \/ opened
           /\ line.cmd = "" => layers' = layers
           /\ (line.cmd # "" /\ ~is_z_move(line.cmd)) =>
                 layer_start' = layer_start /\ layers' = layers
           /\ (is_z_move(line.cmd) /\ ~Pending(input)) => layers' = layers
           /\ is_z_move(line.cmd) => ~layer_start'
           /\ opened <=> /\ is_z_move(line.cmd)
                         /\ Pending(input)
                         /\ ~(current_layer.first /\ marker.n = 0)
           /\ opened =>
                 /\ layers' = Append(layers, current_layer)
                 /\ current_layer'.num = Layer(marker.n, marker.v, 0).num
                 /\ current_layer'.z = marker.v
                 /\ current_layer'.lines = <<line>>
           /\ ~opened => current_layer'.lines = Append(current_layer.lines, line)

C6_Lines ==
    /\ pc = "parse" => Flatten(Append(layers, current_layer)) = input
    /\ pc = "filter" => Flatten(layers) = input

-----------------------------------------------------------------------------
(* C7 *)

NthMarkerAt(ls, n) == CHOOSE m \in Markers(ls) : ls[m].n = n

\* the position of the Z-move that confirms the marker at m
ConfirmAt(ls, m) ==
    CHOOSE p \in (m + 1)..Len(ls) :
        is_z_move(ls[p].cmd) /\ \A k \in (m + 1)..(p - 1) : ~is_z_move(ls[k].cmd)

-----------------------------------------------------------------------------
(* C8 *)

\* the scan step at which the streak reaches 3
Promoting == ScanStepTaken /\ count = 2 /\ ReqOf(zs[zi]) > slots

\* C8 as stated: the bucket at which the streak reaches 3 records the slots
\* value from before the promotion.
C8_TriggerKeepsOld == [][Promoting => layer_data'[zs[zi]].slots = slots]_vars

\* C8 as amended: the bucket at which the streak reaches 3 records the promoted
\* value, its own required count; the buckets scanned before it keep theirs.
C8_TriggerPromoted ==
    [][Promoting =>
          /\ slots' = ReqOf(zs[zi])
          /\ layer_data'[zs[zi]].slots = ReqOf(zs[zi])
          /\ \A j \in 1..(zi - 1) : layer_data'[zs[j]].slots = layer_data[zs[j]].slots
      ]_vars

C8_Witness ==
    /\ pc = "scan"
    /\ zi >= 4
    /\ count = 0
    /\ layer_data[zs[zi - 1]].slots = ReqOf(zs[zi - 1])
    /\ layer_data[zs[zi - 1]].slots > layer_data[zs[zi - 2]].slots

-----------------------------------------------------------------------------
(* C9 *)

\* during the scan: the slots value before bucket j, from the recorded counts
SlotsBefore(j) == IF j = 1 THEN 1 ELSE layer_data[zs[j - 1]].slots

\* the last bucket scanned so far that raised the slot count, 0 if none
LastPromotion ==
    LET ps == {j \in 1..(zi - 1) : layer_data[zs[j]].slots # SlotsBefore(j)}
    IN IF ps = {} THEN 0 ELSE CHOOSE j \in ps : \A k \in ps : k <= j

\* the buckets since then whose required count exceeded the slots value
Exceedances ==
    Cardinality({j \in (LastPromotion + 1)..(zi - 1) : ReqOf(zs[j]) > SlotsBefore(j)})

\* C9 as stated: slots is raised at a bucket only if that bucket and the two
\* buckets immediately above it all have required > slots.
C9_ThreeInARow ==
    [][(ScanStepTaken /\ slots' > slots) =>
          /\ zi >= 3
          /\ ReqOf(zs[zi]) > slots
          /\ ReqOf(zs[zi - 1]) > slots
          /\ ReqOf(zs[zi - 2]) > slots
      ]_vars

\* C9 as amended: slots never falls, and it is raised at a bucket exactly when
\* that bucket has required > slots and two buckets scanned since the last
\* promotion (or since the start), adjacent or not, had required > slots too.
C9_ThreeSincePromotion ==
    [][ScanStepTaken =>
          /\ slots' >= slots
          /\ slots' > slots <=> (ReqOf(zs[zi]) > slots /\ Exceedances = 2)
      ]_vars

C9_Witness == pc = "filtered" /\ ReqSeq = <<2, 1, 2, 1, 2>> /\ RecSeq = <<1, 1, 1, 1, 2>>

-----------------------------------------------------------------------------
(* C10 *)

====
